---- MODULE Spec2Model ----
(***************************************************************************)
(* Model of scripts/performance_benchmark.py: class PerformanceBenchmark.   *)
(* One benchmark object, the child process it launches for each trial, the *)
(* wall clock and the GPU telemetry device.                                 *)
(*                                                                          *)
(* Text is a sequence of one-character strings.  Optional values (Python    *)
(* None) are sequences of length at most one: <<>> is None, <<v>> is v.     *)
(* Clock readings are whole seconds; rounded metrics are stored as whole    *)
(* numbers of the last kept decimal (milliseconds, hundredths).             *)
(***************************************************************************)
EXTENDS Integers, Sequences, FiniteSets, TLC

(* ---------------- bounds of the model ---------------- *)

\* seconds that pass in one step of the clock
TimeStep == 200

\* the clock advances while a trial has run for less than this
MaxElapsed == 400

\* lines a child writes to stdout in one trial, at most
MaxWrites == 2

\* the --num-prompts option is at most this in the runs of one trial (Spec),
\* whose prompt files hold one row at most
MaxTests == 1

\* the --num-prompts option is at most this in the runs of several trials
\* (SpecBench)
MaxBenchTests == 2

\* results in the collection handed to display_summary, at most (SpecStats)
MaxStatsResults == 3

(* ---------------- program constants ---------------- *)

\* run_inference(self, prompt, timeout=300)
DefaultTimeout == 300

\* estimate_tokens: 1 token is about 4 characters
CharsPerToken == 4

\* 'response': full_response[:500] + "..." if len(full_response) > 500
ResponseCut == 500

\* mem_info.used / 1024**2
MiB == 1048576

\* self.model, the default of __init__
DefaultModel == "gpt-oss:20b"

None == <<>>

Some(v) == <<v>>

(* ---------------- text ---------------- *)

Whitespace == {" ", "\n", "\t"}

\* str.rstrip(): drop the trailing whitespace
RECURSIVE rstrip(_)
rstrip(s) ==
    IF s = <<>> THEN <<>>
    ELSE IF s[Len(s)] \in Whitespace THEN rstrip(SubSeq(s, 1, Len(s) - 1))
    ELSE s

\* str.lstrip(): drop the leading whitespace
RECURSIVE lstrip(_)
lstrip(s) ==
    IF s = <<>> THEN <<>>
    ELSE IF Head(s) \in Whitespace THEN lstrip(Tail(s))
    ELSE s

\* str.strip()
strip(s) == lstrip(rstrip(s))

\* '\n'.join(lines)
RECURSIVE join(_)
join(lines) ==
    IF lines = <<>> THEN <<>>
    ELSE IF Len(lines) = 1 THEN lines[1]
    ELSE lines[1] \o <<"\n">> \o join(Tail(lines))

\* full_response[:500] + "..." if len(full_response) > 500 else full_response
Truncate(text) ==
    IF Len(text) > ResponseCut
    THEN SubSeq(text, 1, ResponseCut) \o <<".", ".", ".">>
    ELSE text

(* ---------------- numbers ---------------- *)

\* round(num / den, digits) as a whole number of 10^-digits, for num >= 0 and
\* den > 0; Python rounds an exact half to the even neighbour
RoundRatio(num, den, scale) ==
    LET n == num * scale
        q == n \div den
        r == n % den
    IN  IF 2 * r < den THEN q
        ELSE IF 2 * r > den THEN q + 1
        ELSE IF q % 2 = 0 THEN q ELSE q + 1

\* estimate_tokens(text) = len(text) / 4, kept as the numerator over
\* CharsPerToken
estimate_tokens(text) == Len(text)

\* int(tokens) of a non-negative estimate
IntTokens(chars) == chars \div CharsPerToken

(* ---------------- inputs ---------------- *)

\* rows of the prompt file: 'User Search Question' and 'full_prompt'
Row1 == [question |-> "q1", prompt |-> <<"h", "i">>]

Row2 == [question |-> "q2", prompt |-> <<"w", "h", "y", " ", "n", "o", "t", "?">>]

Row3 == [question |-> "q3", prompt |-> <<"s", "u", "m">>]

\* prompt files of the runs of one trial: no row, or one row
PromptFiles == { <<>>, <<Row1>>, <<Row2>> }

\* the prompt file of the runs of several trials
BenchFile == <<Row1, Row2, Row3>>

\* the line a child writes in the run of several trials
BenchLine == <<" ", "a", " ", "\n">>

\* the device answer of the run of several trials
BenchDevice ==
    [ok |-> TRUE, used |-> 2 * MiB, total |-> 8 * MiB, util |-> 50, temp |-> 60]

\* lines a child may write to stdout: a blank line, text within blanks, text
Lines ==
    { <<"\n">>,
      <<" ", "a", "n", "s", "w", "e", "r", " ", "\n">>,
      <<"4", "2", "\n">> }

\* exit statuses of a child: success, failure, killed by a foreign SIGKILL
ExitCodes == {0, 1, -9}

\* exceptions subprocess.Popen raises when the command cannot be started
LaunchExceptions ==
    { [type |-> "FileNotFoundError",
       msg  |-> "[Errno 2] No such file or directory: 'ollama'"] }

\* exceptions process.stdout.readline raises on undecodable output
ReadExceptions ==
    { [type |-> "UnicodeDecodeError",
       msg  |-> "'utf-8' codec can't decode byte 0xff"] }

\* str(e)
Str(e) == e.msg

\* answers of the NVML device to one query
DeviceAnswers ==
    { [ok |-> TRUE,  used |-> 2 * MiB, total |-> 8 * MiB, util |-> 50, temp |-> 60],
      [ok |-> FALSE, used |-> 0,       total |-> 0,       util |-> 0,  temp |-> 0] }

(* ---------------- state ---------------- *)

VARIABLES
    model,            \* self.model
    results,          \* self.results
    prompts,          \* self.prompts
    gpu_available,    \* self.gpu_available
    num_prompts,      \* main: the --num-prompts option
    bpc,              \* position of main / run_benchmark
    test_prompts,     \* run_benchmark: the selected requests
    i,                \* run_benchmark: the loop counter of enumerate(.., 1)
    pc,               \* position of run_inference
    prompt,           \* run_inference: argument
    timeout,          \* run_inference: argument
    gpu_before,       \* run_inference: local
    start_time,       \* run_inference: local
    output_lines,     \* run_inference: local
    first_token_time, \* run_inference: local
    wait_start,       \* Popen.wait: the clock reading when wait() was called
    exc,              \* run_inference: the exception caught, if any
    result,           \* run_inference: the value returned
    gpu_samples,      \* get_gpu_metrics calls made by the current trial
    gpu_queries,      \* queries those calls sent to the NVML device
    child,            \* the child process of the current trial
    leaked,           \* children of earlier trials that are still running
    summary,          \* display_summary: what the last call printed
    now               \* time.time()

objvars == <<model, results, prompts, gpu_available>>

benchvars == <<num_prompts, bpc, test_prompts, i>>

trialvars == <<pc, prompt, timeout, gpu_before, start_time, output_lines,
               first_token_time, wait_start, exc, result, gpu_samples,
               gpu_queries>>

vars == <<model, results, prompts, gpu_available, num_prompts, bpc,
          test_prompts, i, pc, prompt, timeout, gpu_before, start_time,
          output_lines, first_token_time, wait_start, exc, result,
          gpu_samples, gpu_queries, child, leaked, summary, now>>

\* no process: before Popen, or Popen raised
NoChild ==
    [state |-> "none", stdout_open |-> FALSE, pipe |-> <<>>, emitted |-> <<>>,
     returncode |-> None, writes |-> 0, exit_time |-> None]

\* the process right after a successful Popen
NewChild ==
    [state |-> "running", stdout_open |-> TRUE, pipe |-> <<>>,
     emitted |-> <<>>, returncode |-> None, writes |-> 0, exit_time |-> None]

\* nothing was printed by display_summary yet
NoSummary == [kind |-> "none"]

\* a record that was never returned
NoResult == [success |-> FALSE, error |-> "unset"]

(* ---------------- helpers ---------------- *)

Min(a, b) == IF a < b THEN a ELSE b

\* random.sample(population, k): every sequence of k elements at distinct
\* positions of the population
Sample(population, k) ==
    { [j \in 1..k |-> population[f[j]]] :
        f \in { g \in [1..k -> 1..Len(population)] :
                  \A a, b \in 1..k : a # b => g[a] # g[b] } }

\* the truth value of an optional number: None and 0 are false
Truthy(opt) == opt # None /\ opt[1] # 0

\* the exception NVML raises when a query fails
NVMLError == [type |-> "NVMLError", msg |-> "Unknown Error"]

\* the metrics dict built from the device's answer
GpuMetrics(dev) ==
    [memory_used_mb  |-> dev.used \div MiB,
     memory_total_mb |-> dev.total \div MiB,
     memory_percent  |-> (dev.used * 100) \div dev.total,
     gpu_utilization |-> dev.util,
     temperature     |-> dev.temp]

\* a guard that lets every call through to the device
NotAvailable_ignored(avail) == FALSE

\* 'if not self.gpu_available'
NotAvailable(avail) == ~avail

\* the body of get_gpu_metrics for an object whose gpu_available is avail,
\* against a device answering dev: the value returned, the exception that
\* escapes (the bare except lets none escape) and whether the device was
\* queried
sample(avail, dev) ==
    IF NotAvailable(avail)
    THEN [raised |-> None, value |-> None, queried |-> FALSE]
    ELSE IF ~dev.ok \/ dev.total = 0
         THEN [raised |-> None, value |-> None, queried |-> TRUE]
    ELSE [raised |-> None, value |-> Some(GpuMetrics(dev)), queried |-> TRUE]

\* get_gpu_metrics without its try/except: a failing query escapes
get_gpu_metrics_unguarded(dev) ==
    IF NotAvailable(gpu_available)
    THEN [raised |-> None, value |-> None, queried |-> FALSE]
    ELSE IF ~dev.ok \/ dev.total = 0
         THEN [raised |-> Some(NVMLError), value |-> None, queried |-> TRUE]
    ELSE [raised |-> None, value |-> Some(GpuMetrics(dev)), queried |-> TRUE]

\* get_gpu_metrics(self)
get_gpu_metrics(dev) == sample(gpu_available, dev)

\* the record of the 'except subprocess.TimeoutExpired' handler
TimeoutResult ==
    [timestamp |-> now, model |-> model, error |-> "Timeout", success |-> FALSE]

\* the exception handler keeping the output read so far in its record
ExceptionResult_partial(e) ==
    [timestamp |-> now, model |-> model, error |-> Str(e), success |-> FALSE,
     response |-> Truncate(join(output_lines)),
     response_length |-> Len(join(output_lines))]

\* the record of the 'except Exception as e' handler
ExceptionResult(e) ==
    [timestamp |-> now, model |-> model, error |-> Str(e), success |-> FALSE]

\* the elapsed time taken from the start to the end, backwards
TotalTime_reversed(end_time) == start_time - end_time

\* total_time = end_time - start_time
TotalTime(end_time) == end_time - start_time

\* a time to first token that is the total time whatever was recorded
Ttft_always_total(total_time) == total_time

\* ttft = (first_token_time - start_time) if first_token_time else total_time
Ttft(total_time) ==
    IF Truthy(first_token_time)
    THEN first_token_time[1] - start_time
    ELSE total_time

\* a generation rate taken over the whole trial
TokensPerSecond_over_total(output_tokens, total_time, ttft) ==
    IF total_time > 0
    THEN RoundRatio(output_tokens, CharsPerToken * total_time, 100)
    ELSE 0

\* tokens_per_second, rounded to hundredths; output_tokens is the numerator
\* of the estimate
TokensPerSecond(output_tokens, total_time, ttft) ==
    IF total_time > ttft
    THEN RoundRatio(output_tokens, CharsPerToken * (total_time - ttft), 100)
    ELSE IF total_time > 0
         THEN RoundRatio(output_tokens, CharsPerToken * total_time, 100)
         ELSE 0

\* the record built after process.wait returned at end_time
SuccessResult(end_time, gpu_after) ==
    LET full_response == join(output_lines)
        total_time    == TotalTime(end_time)
        ttft          == Ttft(total_time)
        input_tokens  == estimate_tokens(prompt)
        output_tokens == estimate_tokens(full_response)
        total_tokens  == input_tokens + output_tokens
        tokens_per_second == TokensPerSecond(output_tokens, total_time, ttft)
    IN  [timestamp          |-> now,
         model              |-> model,
         prompt_length      |-> Len(prompt),
         response_length    |-> Len(full_response),
         input_tokens_est   |-> IntTokens(input_tokens),
         output_tokens_est  |-> IntTokens(output_tokens),
         total_tokens_est   |-> IntTokens(total_tokens),
         total_time_seconds |-> RoundRatio(total_time, 1, 1000),
         ttft_seconds       |-> RoundRatio(ttft, 1, 1000),
         tokens_per_second  |-> tokens_per_second,
         throughput_tokens_per_second |->
             IF total_time > 0
             THEN RoundRatio(total_tokens, CharsPerToken * total_time, 100)
             ELSE 0,
         gpu_before         |-> gpu_before,
         gpu_after          |-> gpu_after,
         response           |-> Truncate(full_response),
         success            |-> TRUE]

\* the end of the try block that needs a second sample to succeed
finish_needs_sample(gb, ga) ==
    IF ga.raised # None \/ ga.value = None
    THEN ExceptionResult(NVMLError)
    ELSE [SuccessResult(now, ga.value) EXCEPT !.gpu_before = gb]

\* what run_inference returns once process.wait has returned, given the
\* value gb of gpu_before and the second telemetry call's answer ga
finish(gb, ga) ==
    IF ga.raised # None
    THEN ExceptionResult(ga.raised[1])
    ELSE [SuccessResult(now, ga.value) EXCEPT !.gpu_before = gb]

\* process.kill() on a child that has not exited
Kill(c) ==
    IF c.state \in {"running", "blocked"}
    THEN [c EXCEPT !.state = "killed", !.stdout_open = FALSE,
                   !.returncode = Some(-9), !.exit_time = Some(now)]
    ELSE c

(* ---------------- display_summary ---------------- *)

RECURSIVE SumSeq(_)
SumSeq(values) ==
    IF values = <<>> THEN 0 ELSE Head(values) + SumSeq(Tail(values))

\* min(values) and max(values) of a non-empty list
MinSeq(values) ==
    CHOOSE v \in {values[k] : k \in 1..Len(values)} :
        \A k \in 1..Len(values) : v <= values[k]

MaxSeq(values) ==
    CHOOSE v \in {values[k] : k \in 1..Len(values)} :
        \A k \in 1..Len(values) : v >= values[k]

\* sorted(values)
sorted(values) == SortSeq(values, LAMBDA a, b : a < b)

\* f"{x:.2f}" of x = num / den, as a whole number of hundredths
Format2(num, den) == RoundRatio(num, den, 100)

\* f"{x:.0f}" of x = num / den
Format0(num, den) == RoundRatio(num, den, 1)

\* the text of a table cell that holds no number
NA == None

\* stats(values) of display_summary, for values stored as whole numbers of
\* 1/scale: the cells Min, Max, Average and Median
stats(values, scale) ==
    IF values = <<>>
    THEN [min |-> NA, max |-> NA, avg |-> NA, median |-> NA]
    ELSE LET sorted_vals == sorted(values)
         IN  [min    |-> Some(Format2(MinSeq(values), scale)),
              max    |-> Some(Format2(MaxSeq(values), scale)),
              avg    |-> Some(Format2(SumSeq(values), Len(values) * scale)),
              median |-> Some(Format2(sorted_vals[(Len(sorted_vals) \div 2) + 1],
                                      scale))]

\* [r[key] for r in rs]
Column(rs, key) == [k \in 1..Len(rs) |-> rs[k][key]]

\* [r for r in self.results if r['success']]
Successful(rs) == SelectSeq(rs, LAMBDA r : r.success)

\* the table and the lines printed below it, for a list of successful results
SummaryTable(rs, successful_results) ==
    [kind          |-> "table",
     total_time    |-> stats(Column(successful_results, "total_time_seconds"), 1000),
     ttft          |-> stats(Column(successful_results, "ttft_seconds"), 1000),
     tokens_per_sec |-> stats(Column(successful_results, "tokens_per_second"), 100),
     throughput    |-> stats(Column(successful_results,
                                    "throughput_tokens_per_second"), 100),
     successful    |-> Len(successful_results),
     total         |-> Len(rs)]

\* the averages printed below the table; the division raises on no result
SummaryAverages(successful_results) ==
    [avg_prompt_length   |->
         Format0(SumSeq(Column(successful_results, "prompt_length")),
                 Len(successful_results)),
     avg_response_length |->
         Format0(SumSeq(Column(successful_results, "response_length")),
                 Len(successful_results)),
     avg_output_tokens   |->
         Format0(SumSeq(Column(successful_results, "output_tokens_est")),
                 Len(successful_results))]

\* display_summary without its early return: the table of N/A cells is
\* printed and the first average divides by zero
display_summary_unguarded(rs) ==
    LET successful_results == Successful(rs)
    IN  IF successful_results = <<>>
        THEN [kind |-> "raised", error |-> "ZeroDivisionError",
              table |-> SummaryTable(rs, successful_results)]
        ELSE SummaryTable(rs, successful_results)
                 @@ SummaryAverages(successful_results)

\* display_summary(self) on self.results = rs: what is printed
display_summary(rs) ==
    LET successful_results == Successful(rs)
    IN  IF successful_results = <<>>
        THEN [kind |-> "no_success"]
        ELSE SummaryTable(rs, successful_results)
                 @@ SummaryAverages(successful_results)

(* ---------------- construction and main ---------------- *)

\* __init__: NVML initialises or not; main has not yet loaded the prompts
Init ==
    /\ model = DefaultModel
    /\ results = <<>>
    /\ prompts = <<>>
    /\ gpu_available \in BOOLEAN
    /\ num_prompts = 0
    /\ bpc = "main"
    /\ test_prompts = <<>>
    /\ i = 0
    /\ pc = "idle"
    /\ prompt = <<>>
    /\ timeout = DefaultTimeout
    /\ gpu_before = None
    /\ start_time = 0
    /\ output_lines = <<>>
    /\ first_token_time = None
    /\ wait_start = 0
    /\ exc = None
    /\ result = NoResult
    /\ gpu_samples = 0
    /\ gpu_queries = 0
    /\ child = NoChild
    /\ leaked = 0
    /\ summary = NoSummary
    /\ now = TimeStep

\* main: load_prompts(num_prompts) reads rows and keeps a sample of them
load_prompts(rows, n) ==
    /\ bpc = "main"
    /\ num_prompts' = n
    /\ \E chosen \in (IF n # 0 THEN Sample(rows, Min(n, Len(rows))) ELSE {rows}) :
           prompts' = chosen
    /\ bpc' = "loaded"
    /\ UNCHANGED <<model, results, gpu_available, test_prompts, i, child, now>>
    /\ UNCHANGED trialvars
    /\ UNCHANGED <<leaked, summary>>

\* main: load_prompts returns False (file missing) and main returns
load_prompts_fails ==
    /\ bpc = "main"
    /\ bpc' = "done"
    /\ UNCHANGED <<num_prompts, test_prompts, i, child, now>>
    /\ UNCHANGED objvars
    /\ UNCHANGED trialvars
    /\ UNCHANGED <<leaked, summary>>

(* ---------------- run_benchmark ---------------- *)

\* run_benchmark(num_tests=num_prompts) up to the head of the loop
run_benchmark ==
    /\ bpc = "loaded"
    /\ IF prompts = <<>>
       THEN /\ bpc' = "done"
            /\ UNCHANGED <<test_prompts, i>>
       ELSE /\ test_prompts' \in Sample(prompts, Min(num_prompts, Len(prompts)))
            /\ i' = 1
            /\ bpc' = "loop"
    /\ UNCHANGED <<num_prompts, child, now>>
    /\ UNCHANGED objvars
    /\ UNCHANGED trialvars
    /\ UNCHANGED <<leaked, summary>>

(* ---------------- run_inference ---------------- *)

\* the call at the loop body: gpu_before, cmd and start_time
run_inference(dev) ==
    /\ bpc = "loop"
    /\ pc = "idle"
    /\ i <= Len(test_prompts)
    /\ LET g == get_gpu_metrics(dev)
       IN  /\ gpu_before' = g.value
           /\ pc' = IF g.raised # None THEN "raised" ELSE "popen"
           /\ gpu_queries' = IF g.queried THEN 1 ELSE 0
    /\ prompt' = test_prompts[i].prompt
    /\ timeout' = DefaultTimeout
    /\ gpu_samples' = 1
    /\ start_time' = now
    /\ output_lines' = <<>>
    /\ first_token_time' = None
    /\ wait_start' = 0
    /\ exc' = None
    /\ result' = NoResult
    /\ child' = NoChild
    /\ UNCHANGED now
    /\ UNCHANGED objvars
    /\ UNCHANGED benchvars
    /\ leaked' = leaked + (IF child.state \in {"running", "blocked"} THEN 1 ELSE 0)
    /\ UNCHANGED summary

\* subprocess.Popen starts the child; output_lines and first_token_time
popen ==
    /\ pc = "popen"
    /\ child' = NewChild
    /\ output_lines' = <<>>
    /\ first_token_time' = None
    /\ pc' = "read"
    /\ UNCHANGED <<prompt, timeout, gpu_before, start_time, wait_start, exc,
                   result, gpu_samples, gpu_queries, now>>
    /\ UNCHANGED objvars
    /\ UNCHANGED benchvars
    /\ UNCHANGED <<leaked, summary>>

\* the exception of Popen swallowed: the read loop is entered with no process
popen_raises_enters_loop(e) ==
    /\ pc = "popen"
    /\ exc' = Some(e)
    /\ output_lines' = <<>>
    /\ first_token_time' = None
    /\ pc' = "read"
    /\ UNCHANGED <<prompt, timeout, gpu_before, start_time, wait_start,
                   result, gpu_samples, gpu_queries, child, now>>
    /\ UNCHANGED objvars
    /\ UNCHANGED benchvars
    /\ UNCHANGED <<leaked, summary>>

\* subprocess.Popen raises e: the 'except Exception' handler returns
popen_raises(e) ==
    /\ pc = "popen"
    /\ exc' = Some(e)
    /\ result' = ExceptionResult(e)
    /\ pc' = "return"
    /\ UNCHANGED <<prompt, timeout, gpu_before, start_time, output_lines,
                   first_token_time, wait_start, gpu_samples, gpu_queries,
                   child, now>>
    /\ UNCHANGED objvars
    /\ UNCHANGED benchvars
    /\ UNCHANGED <<leaked, summary>>

\* a loop that stamps the time of every non-blank line it reads
readline_restamps ==
    /\ pc = "read"
    /\ child.pipe # <<>>
    /\ LET line == Head(child.pipe)
       IN  IF strip(line) # <<>>
           THEN /\ first_token_time' = Some(now)
                /\ output_lines' = Append(output_lines, rstrip(line))
           ELSE UNCHANGED <<first_token_time, output_lines>>
    /\ child' = [child EXCEPT !.pipe = Tail(child.pipe)]
    /\ UNCHANGED <<pc, prompt, timeout, gpu_before, start_time, wait_start,
                   exc, result, gpu_samples, gpu_queries, now>>
    /\ UNCHANGED objvars
    /\ UNCHANGED benchvars
    /\ UNCHANGED <<leaked, summary>>

\* one turn of the loop: readline returns the next line of the pipe
readline ==
    /\ pc = "read"
    /\ child.pipe # <<>>
    /\ LET line == Head(child.pipe)
       IN  IF strip(line) # <<>>
           THEN /\ first_token_time' =
                       IF first_token_time = None THEN Some(now)
                       ELSE first_token_time
                /\ output_lines' = Append(output_lines, rstrip(line))
           ELSE UNCHANGED <<first_token_time, output_lines>>
    /\ child' = [child EXCEPT !.pipe = Tail(child.pipe)]
    /\ UNCHANGED <<pc, prompt, timeout, gpu_before, start_time, wait_start,
                   exc, result, gpu_samples, gpu_queries, now>>
    /\ UNCHANGED objvars
    /\ UNCHANGED benchvars
    /\ UNCHANGED <<leaked, summary>>

\* readline returns '' at end of file: the loop ends, process.wait is called
readline_eof ==
    /\ pc = "read"
    /\ child.pipe = <<>>
    /\ ~child.stdout_open
    /\ wait_start' = now
    /\ pc' = "wait"
    /\ UNCHANGED <<prompt, timeout, gpu_before, start_time, output_lines,
                   first_token_time, exc, result, gpu_samples, gpu_queries,
                   child, now>>
    /\ UNCHANGED objvars
    /\ UNCHANGED benchvars
    /\ UNCHANGED <<leaked, summary>>

\* readline raises e on the next data: the 'except Exception' handler returns
readline_raises(e) ==
    /\ pc = "read"
    /\ child.pipe # <<>>
    /\ exc' = Some(e)
    /\ result' = ExceptionResult(e)
    /\ pc' = "return"
    /\ UNCHANGED <<prompt, timeout, gpu_before, start_time, output_lines,
                   first_token_time, wait_start, gpu_samples, gpu_queries,
                   child, now>>
    /\ UNCHANGED objvars
    /\ UNCHANGED benchvars
    /\ UNCHANGED <<leaked, summary>>

\* process.wait returns because the child has exited: metrics, gpu_after and
\* the success record
wait_returns(dev) ==
    /\ pc = "wait"
    /\ child.state = "exited"
    /\ LET g == get_gpu_metrics(dev)
       IN  /\ exc' = IF g.raised # None THEN g.raised ELSE exc
           /\ result' = finish(gpu_before, g)
           /\ gpu_queries' = gpu_queries + (IF g.queried THEN 1 ELSE 0)
    /\ gpu_samples' = gpu_samples + 1
    /\ pc' = "return"
    /\ UNCHANGED <<prompt, timeout, gpu_before, start_time, output_lines,
                   first_token_time, wait_start, child, now>>
    /\ UNCHANGED objvars
    /\ UNCHANGED benchvars
    /\ UNCHANGED <<leaked, summary>>

\* the TimeoutExpired handler without process.kill()
wait_expires_nokill ==
    /\ pc = "wait"
    /\ child.state \in {"running", "blocked"}
    /\ now >= wait_start + timeout
    /\ result' = TimeoutResult
    /\ pc' = "return"
    /\ UNCHANGED <<prompt, timeout, gpu_before, start_time, output_lines,
                   first_token_time, wait_start, exc, gpu_samples,
                   gpu_queries, child, now>>
    /\ UNCHANGED objvars
    /\ UNCHANGED benchvars
    /\ UNCHANGED <<leaked, summary>>

\* process.wait raises TimeoutExpired: the handler kills the child and returns
wait_expires ==
    /\ pc = "wait"
    /\ child.state \in {"running", "blocked"}
    /\ now >= wait_start + timeout
    /\ child' = Kill(child)
    /\ result' = TimeoutResult
    /\ pc' = "return"
    /\ UNCHANGED <<prompt, timeout, gpu_before, start_time, output_lines,
                   first_token_time, wait_start, exc, gpu_samples,
                   gpu_queries, now>>
    /\ UNCHANGED objvars
    /\ UNCHANGED benchvars
    /\ UNCHANGED <<leaked, summary>>

\* the loop body appending only the results of successful trials
run_benchmark_record_success_only ==
    /\ bpc = "loop"
    /\ pc \in {"return", "raised"}
    /\ IF pc = "raised"
       THEN /\ bpc' = "crashed"
            /\ UNCHANGED <<results, i>>
       ELSE /\ results' =
                   IF result.success
                   THEN Append(results,
                            result @@ [test_number |-> i,
                                       question    |-> test_prompts[i].question])
                   ELSE results
            /\ i' = i + 1
            /\ bpc' = bpc
    /\ pc' = "idle"
    /\ UNCHANGED <<model, prompts, gpu_available, num_prompts, test_prompts,
                   prompt, timeout, gpu_before, start_time, output_lines,
                   first_token_time, wait_start, exc, result, gpu_samples,
                   gpu_queries,
                   child, now>>
    /\ UNCHANGED <<leaked, summary>>

\* back in the loop body: test_number, question, append, next request; an
\* exception of run_inference would leave run_benchmark
run_benchmark_record ==
    /\ bpc = "loop"
    /\ pc \in {"return", "raised"}
    /\ IF pc = "raised"
       THEN /\ bpc' = "crashed"
            /\ UNCHANGED <<results, i>>
       ELSE /\ results' = Append(results,
                   result @@ [test_number |-> i,
                              question    |-> test_prompts[i].question])
            /\ i' = i + 1
            /\ bpc' = bpc
    /\ pc' = "idle"
    /\ UNCHANGED <<model, prompts, gpu_available, num_prompts, test_prompts,
                   prompt, timeout, gpu_before, start_time, output_lines,
                   first_token_time, wait_start, exc, result, gpu_samples,
                   gpu_queries,
                   child, now>>
    /\ UNCHANGED <<leaked, summary>>

\* a display_summary that keeps only the successful results in self.results
run_benchmark_finish_consumes ==
    /\ bpc = "loop"
    /\ pc = "idle"
    /\ i > Len(test_prompts)
    /\ bpc' = "done"
    /\ UNCHANGED <<num_prompts, test_prompts, i, child, now>>
    /\ results' = Successful(results)
    /\ UNCHANGED <<model, prompts, gpu_available>>
    /\ UNCHANGED trialvars
    /\ summary' = display_summary(results)
    /\ UNCHANGED leaked

\* the loop is exhausted: save_results writes its files, display_summary
\* prints the summary, and run_benchmark returns
run_benchmark_finish ==
    /\ bpc = "loop"
    /\ pc = "idle"
    /\ i > Len(test_prompts)
    /\ bpc' = "done"
    /\ UNCHANGED <<num_prompts, test_prompts, i, child, now>>
    /\ UNCHANGED objvars
    /\ UNCHANGED trialvars
    /\ summary' = display_summary(results)
    /\ UNCHANGED leaked

(* ---------------- the child process and the clock ---------------- *)

ChildActs == pc \in {"read", "wait"} /\ child.state = "running"

\* the child writes a line to stdout
child_writes(line) ==
    /\ ChildActs
    /\ child.stdout_open
    /\ child.writes < MaxWrites
    /\ child' = [child EXCEPT !.pipe = Append(child.pipe, line),
                              !.emitted = Append(child.emitted, line),
                              !.writes = child.writes + 1]
    /\ UNCHANGED now
    /\ UNCHANGED objvars
    /\ UNCHANGED benchvars
    /\ UNCHANGED trialvars
    /\ UNCHANGED <<leaked, summary>>

\* the child writes more to stderr than the pipe holds; run_inference never
\* reads stderr, so the child blocks in the write
child_blocks_on_stderr ==
    /\ ChildActs
    /\ child' = [child EXCEPT !.state = "blocked"]
    /\ UNCHANGED now
    /\ UNCHANGED objvars
    /\ UNCHANGED benchvars
    /\ UNCHANGED trialvars
    /\ UNCHANGED <<leaked, summary>>

\* the child closes its stdout and keeps running
child_closes_stdout ==
    /\ ChildActs
    /\ child.stdout_open
    /\ child' = [child EXCEPT !.stdout_open = FALSE]
    /\ UNCHANGED now
    /\ UNCHANGED objvars
    /\ UNCHANGED benchvars
    /\ UNCHANGED trialvars
    /\ UNCHANGED <<leaked, summary>>

\* the child exits with a status, or a foreign signal ends it
child_exits(code) ==
    /\ ChildActs
    /\ child' = [child EXCEPT !.state = "exited", !.stdout_open = FALSE,
                              !.returncode = Some(code),
                              !.exit_time = Some(now)]
    /\ UNCHANGED now
    /\ UNCHANGED objvars
    /\ UNCHANGED benchvars
    /\ UNCHANGED trialvars
    /\ UNCHANGED <<leaked, summary>>

\* a child left running by an earlier trial exits of its own
orphan_exits ==
    /\ leaked > 0
    /\ leaked' = leaked - 1
    /\ UNCHANGED <<child, summary, now>>
    /\ UNCHANGED objvars
    /\ UNCHANGED benchvars
    /\ UNCHANGED trialvars

\* time passes while a trial is under way
Tick ==
    /\ pc \in {"popen", "read", "wait"}
    /\ \/ now - start_time < MaxElapsed
       \/ pc = "wait" /\ now < wait_start + timeout
    /\ now' = now + TimeStep
    /\ UNCHANGED child
    /\ UNCHANGED objvars
    /\ UNCHANGED benchvars
    /\ UNCHANGED trialvars
    /\ UNCHANGED <<leaked, summary>>

(* ---------------- specifications ---------------- *)

Step ==
    \/ \E dev \in DeviceAnswers : run_inference(dev)
    \/ popen
    \/ \E e \in LaunchExceptions : popen_raises(e)
    \/ readline
    \/ readline_eof
    \/ \E e \in ReadExceptions : readline_raises(e)
    \/ \E dev \in DeviceAnswers : wait_returns(dev)
    \/ wait_expires

Bench ==
    \/ \E rows \in PromptFiles, n \in 0..MaxTests : load_prompts(rows, n)
    \/ load_prompts_fails
    \/ run_benchmark
    \/ run_benchmark_record
    \/ run_benchmark_finish

Child ==
    \/ \E line \in Lines : child_writes(line)
    \/ child_blocks_on_stderr
    \/ child_closes_stdout
    \/ \E code \in ExitCodes : child_exits(code)

Next == Step \/ Bench \/ Child \/ Tick

Spec == Init /\ [][Next]_vars

\* the interpreter runs every enabled statement, and the clock advances; the
\* child is free to do nothing
FairSpec == Spec /\ WF_vars(Step) /\ WF_vars(Bench) /\ WF_vars(Tick)

\* A run of up to MaxBenchTests trials.  The environment is narrowed to keep
\* the trials few in kind: one device answer, a child that exits only while
\* its output is being read, and a clock that is seen to advance only during
\* process.wait.  Every outcome of a trial remains: success, Timeout, an
\* exception at launch and an exception while reading.
StepBench ==
    \/ run_inference(BenchDevice)
    \/ popen
    \/ \E e \in LaunchExceptions : popen_raises(e)
    \/ readline
    \/ readline_eof
    \/ \E e \in ReadExceptions : readline_raises(e)
    \/ wait_returns(BenchDevice)
    \/ wait_expires

BenchBench ==
    \/ \E n \in 0..MaxBenchTests : load_prompts(BenchFile, n)
    \/ load_prompts_fails
    \/ run_benchmark
    \/ run_benchmark_record
    \/ run_benchmark_finish

ChildBench ==
    \/ child_writes(BenchLine)
    \/ child_closes_stdout
    \/ \E code \in {0, 1} : pc = "read" /\ child_exits(code)

NextBench ==
    \/ StepBench
    \/ BenchBench
    \/ ChildBench
    \/ orphan_exits
    \/ (pc = "wait" /\ Tick)

SpecBench == Init /\ [][NextBench]_vars

(* ---------------- display_summary on its own ---------------- *)

\* the record run_inference returns for a trial on Row1 that answered 8
\* characters, saw its first token ttft seconds and ended total seconds after
\* the start, without telemetry
StatsTrial(ttft, total) ==
    [timestamp          |-> TimeStep + total,
     model              |-> DefaultModel,
     prompt_length      |-> 2,
     response_length    |-> 8,
     input_tokens_est   |-> IntTokens(2),
     output_tokens_est  |-> IntTokens(8),
     total_tokens_est   |-> IntTokens(10),
     total_time_seconds |-> RoundRatio(total, 1, 1000),
     ttft_seconds       |-> RoundRatio(ttft, 1, 1000),
     tokens_per_second  |-> RoundRatio(8, CharsPerToken * (total - ttft), 100),
     throughput_tokens_per_second |-> RoundRatio(10, CharsPerToken * total, 100),
     gpu_before         |-> None,
     gpu_after          |-> None,
     response           |-> <<"a", "n", "s", "w", "e", "r", " ", "1">>,
     success            |-> TRUE]

\* the record run_inference returns for a trial that timed out
StatsTimeout ==
    [timestamp |-> TimeStep + DefaultTimeout, model |-> DefaultModel,
     error |-> "Timeout", success |-> FALSE]

\* the outcomes of the trials summarised: ttft of 1, 3 and 2 seconds, and a
\* failure
StatsOutcomes ==
    { StatsTrial(1, 2), StatsTrial(3, 5), StatsTrial(2, 6), StatsTimeout }

\* the collections run_benchmark may hold when its loop is exhausted
StatsCollections ==
    UNION { [1..n -> StatsOutcomes] : n \in 0..MaxStatsResults }

\* run_benchmark at the end of its loop over n requests, with the results of
\* the n trials recorded; the locals of run_inference are dead there
InitStats ==
    /\ model = DefaultModel
    /\ \E outcomes \in StatsCollections :
           /\ results = [k \in 1..Len(outcomes) |->
                            outcomes[k] @@ [test_number |-> k,
                                            question    |-> Row1.question]]
           /\ num_prompts = Len(outcomes)
           /\ test_prompts = [k \in 1..Len(outcomes) |-> Row1]
           /\ prompts = [k \in 1..(IF outcomes = <<>> THEN 1 ELSE Len(outcomes))
                            |-> Row1]
           /\ i = Len(outcomes) + 1
    /\ gpu_available = FALSE
    /\ bpc = "loop"
    /\ pc = "idle"
    /\ prompt = <<>>
    /\ timeout = DefaultTimeout
    /\ gpu_before = None
    /\ start_time = 0
    /\ output_lines = <<>>
    /\ first_token_time = None
    /\ wait_start = 0
    /\ exc = None
    /\ result = NoResult
    /\ gpu_samples = 0
    /\ gpu_queries = 0
    /\ child = NoChild
    /\ leaked = 0
    /\ summary = NoSummary
    /\ now = TimeStep

NextStats == run_benchmark_finish

SpecStats == InitStats /\ [][NextStats]_vars

(* ---------------- properties ---------------- *)

Returned == pc = "return"

\* a process was started for the current trial
Launched == child.state # "none"

IsTimeout(r) == ~r.success /\ "error" \in DOMAIN r /\ r.error = "Timeout"

\* the clock reading at which the timeout of the current trial is due
Deadline == start_time + timeout

\* the child had not exited of its own when the deadline passed
AliveAtDeadline ==
    \/ child.state \in {"running", "blocked", "killed"}
    \/ child.state = "exited" /\ child.exit_time[1] > Deadline

\* the keys of the derived metrics and of the output in a result record
MetricKeys ==
    {"prompt_length", "response_length", "input_tokens_est",
     "output_tokens_est", "total_tokens_est", "total_time_seconds",
     "ttft_seconds", "tokens_per_second", "throughput_tokens_per_second"}

OutputKeys == {"response", "response_length"}

\* C1: a trial whose child wrote nothing and had not exited when start_time +
\* timeout passed returns the 'Timeout' failure with the child killed, never
\* success = True.
C1_SilentChildTimesOut ==
    (Returned /\ Launched /\ child.writes = 0 /\ AliveAtDeadline)
        => (IsTimeout(result) /\ child.state = "killed")

\* C2: the timeout counts from start_time: a trial whose child wrote output,
\* had its first token seen before the deadline and exited only after
\* start_time + timeout returns the 'Timeout' failure.
C2_TimeoutFromStart ==
    (/\ Returned
     /\ exc = None
     /\ child.writes > 0
     /\ first_token_time # None
     /\ first_token_time[1] < Deadline
     /\ child.state = "exited"
     /\ child.exit_time[1] > Deadline)
        => IsTimeout(result)

\* C3: every call of run_inference eventually returns, whatever the child
\* does.
C3_EveryCallReturns == (pc = "popen") ~> (pc = "return")

\* once process.wait has been called the call does return: the wait is timed
WaitIsBounded == (pc = "wait") ~> (pc = "return")

\* C4: a trial whose child exited with a non-zero status, or was ended by a
\* foreign signal, returns success = False with a ProcessError failure.
C4_AbnormalExitIsProcessError ==
    (/\ Returned
     /\ exc = None
     /\ child.state = "exited"
     /\ child.returncode # Some(0))
        => (/\ ~result.success
            /\ "error" \in DOMAIN result
            /\ result.error = "ProcessError")

C6_TelemetryTwiceOnEveryOutcome == Returned => gpu_samples = 2

\* C7: run_inference never raises to run_benchmark, whatever the launcher,
\* the child and the telemetry device do: what it hands back is a record
\* with a boolean 'success'.
C7_NeverRaises ==
    /\ pc # "raised"
    /\ bpc # "crashed"
    /\ Returned => ("success" \in DOMAIN result /\ result.success \in BOOLEAN)

\* the device failed at the first sample and a later exception was caught
C7_Witness ==
    /\ Returned
    /\ gpu_available
    /\ gpu_before = None
    /\ exc # None
    /\ ~result.success

\* C8: run_benchmark appends one result per selected request, in request
\* order: while the loop runs the collection holds the results of the
\* requests already tried, the k-th with test_number k and the k-th
\* request's question, failed trials included; when it is done there are
\* exactly as many results as requests.
C8_OneResultPerRequestInOrder ==
    /\ bpc = "loop" => Len(results) = i - 1
    /\ bpc = "done" => Len(results) = Len(test_prompts)
    /\ bpc \in {"loop", "done"} =>
           Len(test_prompts) = Min(num_prompts, Len(prompts))
    /\ \A k \in 1..Len(results) :
           /\ results[k].test_number = k
           /\ results[k].question = test_prompts[k].question
           /\ results[k].success \in BOOLEAN
           /\ results[k].model = model

\* a run of two requests: the first failed, the second succeeded
C8_Witness ==
    /\ bpc = "done"
    /\ Len(test_prompts) = 2
    /\ Len(results) = 2
    /\ ~results[1].success
    /\ results[2].success

\* C9: every returned result has one of two shapes: success = True with all
\* derived metrics and no 'error'; or success = False with an 'error' and
\* neither a derived metric nor output.  The timeout path and the normal
\* completion exclude each other: a 'Timeout' result comes with a killed
\* child, a success with a child that exited of its own.
WellShaped(r) ==
    \/ /\ r.success
       /\ (MetricKeys \cup OutputKeys) \subseteq DOMAIN r
       /\ "error" \notin DOMAIN r
    \/ /\ ~r.success
       /\ "error" \in DOMAIN r
       /\ DOMAIN r \cap (MetricKeys \cup OutputKeys) = {}

C9_TwoShapes ==
    /\ Returned =>
           /\ WellShaped(result)
           /\ IsTimeout(result) => child.state = "killed"
           /\ result.success => child.state = "exited"
           /\ child.state = "killed" => IsTimeout(result)
    /\ \A k \in 1..Len(results) : WellShaped(results[k])

\* a failed result returned after output had been collected
C9_Witness ==
    /\ Returned
    /\ ~result.success
    /\ output_lines # <<>>

\* C10: when process.wait runs out of time the child is killed and the
\* result returned is the 'Timeout' failure, with none of the collected
\* output in it.
C10_TimeoutKillsAndDiscards ==
    [][(pc = "wait" /\ pc' = "return" /\ child.state # "exited")
          => (/\ child'.state = "killed"
              /\ IsTimeout(result')
              /\ DOMAIN result' \cap (MetricKeys \cup OutputKeys) = {})]_vars

\* the timeout fired on a trial that had collected output
C10_Witness ==
    /\ Returned
    /\ IsTimeout(result)
    /\ child.state = "killed"
    /\ output_lines # <<>>

\* the inference processes started by the benchmark that are running now
RunningChildren ==
    leaked + (IF child.state \in {"running", "blocked"} THEN 1 ELSE 0)

\* C11: trials run strictly one after the other: at every point of a
\* run_benchmark execution at most one inference child process is running.
C11_OneChildAtATime == RunningChildren <= 1

\* the values of one metric over exactly the results with success = True
MetricValues(key) ==
    LET idx == { k \in 1..Len(results) : results[k].success }
        pick[S \in SUBSET idx] ==
            IF S = {} THEN <<>>
            ELSE LET k == CHOOSE x \in S : \A y \in S : x <= y
                 IN  <<results[k][key]>> \o pick[S \ {k}]
    IN  pick[idx]

\* the statistical median of a non-empty list of values stored as whole
\* numbers of 1/scale, printed with two decimals: the middle value, or the
\* mean of the two middle values
StatMedian(values, scale) ==
    LET sv == sorted(values)
        n  == Len(sv)
    IN  IF n % 2 = 1 THEN Format2(sv[(n + 1) \div 2], scale)
        ELSE Format2(sv[n \div 2] + sv[(n \div 2) + 1], 2 * scale)

\* the row the claim expects for one metric
ExpectedRow(key, scale) ==
    LET values == MetricValues(key)
    IN  [min    |-> Some(Format2(MinSeq(values), scale)),
         max    |-> Some(Format2(MaxSeq(values), scale)),
         avg    |-> Some(Format2(SumSeq(values), Len(values) * scale)),
         median |-> Some(StatMedian(values, scale))]

\* C12: the summary reports for each derived metric the minimum, maximum,
\* arithmetic mean and statistical median over exactly the successful
\* results, for every count of them, odd or even.
C12_SummaryStatistics ==
    summary.kind = "table" =>
        /\ summary.total_time = ExpectedRow("total_time_seconds", 1000)
        /\ summary.ttft = ExpectedRow("ttft_seconds", 1000)
        /\ summary.tokens_per_sec = ExpectedRow("tokens_per_second", 100)
        /\ summary.throughput = ExpectedRow("throughput_tokens_per_second", 100)

\* the keys of a summary that carry a statistic
StatKeys ==
    {"total_time", "ttft", "tokens_per_sec", "throughput",
     "avg_prompt_length", "avg_response_length", "avg_output_tokens"}

NoSuccess == \A k \in 1..Len(results) : ~results[k].success

\* C13: when no result is successful (the empty collection included) the
\* summary printed carries no statistic at all, so none is reported as zero,
\* and display_summary does not raise.
C13_NoSuccessNoStatistics ==
    /\ summary.kind # "raised"
    /\ (summary # NoSummary /\ NoSuccess) =>
           /\ summary.kind = "no_success"
           /\ DOMAIN summary \cap StatKeys = {}
    /\ (summary # NoSummary /\ ~NoSuccess) => summary.kind = "table"

\* a collection of failed results only was summarised
C13_Witness ==
    /\ bpc = "done"
    /\ Len(results) >= 2
    /\ NoSuccess
    /\ summary.kind = "no_success"

\* what get_gpu_metrics answers without touching the device
NoMetrics == [raised |-> None, value |-> None, queried |-> FALSE]

\* C14: once telemetry initialisation has failed, gpu_available is False and
\* stays False for the life of the object, and every get_gpu_metrics call
\* returns None without raising and without querying the device.
C14_TelemetryOffStaysOff ==
    /\ [](~gpu_available =>
            /\ \A dev \in DeviceAnswers : get_gpu_metrics(dev) = NoMetrics
            /\ gpu_queries = 0
            /\ gpu_before = None
            /\ (Returned /\ result.success) =>
                   result.gpu_before = None /\ result.gpu_after = None
            /\ (exc # None) => exc[1] # NVMLError)
    /\ [][~gpu_available => ~gpu_available']_vars

\* a trial ran to success with telemetry unavailable: both calls were made
C14_Witness ==
    /\ ~gpu_available
    /\ Returned
    /\ result.success
    /\ gpu_samples = 2
    /\ gpu_queries = 0

\* a result without its telemetry fields
StripGpu(r) == [k \in DOMAIN r \ {"gpu_before", "gpu_after"} |-> r[k]]

\* the answers a telemetry call can give: unavailable, failing, or a sample
Samples == { sample(avail, dev) : avail \in BOOLEAN, dev \in DeviceAnswers }

\* C15: the outcome of a trial does not depend on telemetry. At the two
\* points where run_inference consults telemetry, with the prompt, the
\* child's behaviour and the clock as they are, every answer telemetry can
\* give (unavailable, failing at sample time, or a sample) lets the trial go
\* on to the launch, and yields the result actually returned up to its
\* gpu_before and gpu_after fields: same success flag, same failure kind,
\* same derived metrics.
C15_OutcomeIndependentOfTelemetry ==
    [][ /\ (pc = "idle" /\ pc' # "idle") => pc' = "popen"
        /\ (pc = "wait" /\ pc' = "return" /\ child.state = "exited") =>
               \A gb, ga \in Samples :
                   /\ gb.raised = None
                   /\ StripGpu(finish(gb.value, ga)) = StripGpu(result')
      ]_vars

\* a trial succeeded with a sample before and a failed query after
C15_Witness ==
    /\ Returned
    /\ result.success
    /\ gpu_available
    /\ result.gpu_before # None
    /\ result.gpu_after = None
    /\ Len(output_lines) > 0

\* C16: for every successful result, start <= first_token <= end whenever a
\* first-token timestamp was recorded, and ttft, generation rate, total
\* throughput and output length are numbers that are not negative.
C16_OrderedAndNonNegative ==
    (Returned /\ result.success) =>
        /\ first_token_time # None =>
               /\ start_time <= first_token_time[1]
               /\ first_token_time[1] <= result.timestamp
        /\ start_time <= result.timestamp
        /\ result.ttft_seconds \in Nat
        /\ result.tokens_per_second \in Nat
        /\ result.throughput_tokens_per_second \in Nat
        /\ result.response_length \in Nat

\* a successful trial whose first token came strictly between start and end
C16_Witness ==
    /\ Returned
    /\ result.success
    /\ first_token_time # None
    /\ start_time < first_token_time[1]
    /\ first_token_time[1] < result.timestamp
    /\ result.response_length > 0

\* the step is a turn of the read loop that consumed a line of the pipe
ReadsLine == pc = "read" /\ child.pipe # <<>> /\ child'.pipe = Tail(child.pipe)

\* C17: within one trial the first-token timestamp is written at most once.
\* It is set, to the time of the read, by the turn of the loop that reads
\* the first line holding more than white space; no later line, blank or
\* not, changes it; and it is absent whenever no such line has been read,
\* in particular when the child exits without writing one.
C17_FirstTokenWrittenOnce ==
    /\ [][ /\ (first_token_time # None /\ pc # "idle") =>
                  first_token_time' = first_token_time
           /\ (first_token_time = None /\ first_token_time' # None) =>
                  /\ ReadsLine
                  /\ strip(Head(child.pipe)) # <<>>
                  /\ output_lines = <<>>
                  /\ first_token_time' = Some(now)
           /\ (ReadsLine /\ strip(Head(child.pipe)) # <<>>) =>
                  first_token_time' # None
         ]_vars
    /\ [](output_lines = <<>> => first_token_time = None)

\* two lines of text were read at different times; the stamp is the first's
C17_Witness ==
    /\ Returned
    /\ result.success
    /\ Len(output_lines) = 2
    /\ first_token_time # None
    /\ start_time < first_token_time[1]
    /\ first_token_time[1] < result.timestamp

\* a line without its terminator
chomp(line) ==
    IF line # <<>> /\ line[Len(line)] = "\n"
    THEN SubSeq(line, 1, Len(line) - 1)
    ELSE line

\* everything the child wrote to stdout, unit by unit in emission order, the
\* units separated by the line terminator
EmittedText == join([k \in 1..Len(child.emitted) |-> chomp(child.emitted[k])])

\* C18: for a trial that completes normally the accumulated response is all
\* the output units the child emitted, in emission order, blank lines and
\* trailing white space included, and response_length is its length.
C18_ResponseIsAllOutput ==
    (Returned /\ result.success) =>
        /\ join(output_lines) = EmittedText
        /\ result.response = Truncate(EmittedText)
        /\ result.response_length = Len(EmittedText)

\* rate, in hundredths of a token per second, is chars / CharsPerToken
\* tokens over d seconds rounded to two decimals
IsRate(rate, chars, d) ==
    LET diff == CharsPerToken * d * rate - 100 * chars
    IN  -(2 * d) <= diff /\ diff <= 2 * d

\* C19: for every successful trial the generation rate is the output token
\* estimate over (end - first_token) when a first token was recorded and
\* end > first_token; otherwise the estimate over (end - start) when that is
\* positive, and 0 when it is not. The value recorded is rounded to two
\* decimals.
C19_GenerationRate ==
    (Returned /\ result.success) =>
        LET end   == result.timestamp
            chars == Len(join(output_lines))
            rate  == result.tokens_per_second
        IN  IF first_token_time # None /\ end > first_token_time[1]
            THEN IsRate(rate, chars, end - first_token_time[1])
            ELSE IF end - start_time > 0
                 THEN IsRate(rate, chars, end - start_time)
                 ELSE rate = 0

\* a trial whose first token came strictly between start and end, with a
\* rate that does not round to zero
C19_Witness ==
    /\ Returned
    /\ result.success
    /\ first_token_time # None
    /\ start_time < first_token_time[1]
    /\ first_token_time[1] < result.timestamp
    /\ result.tokens_per_second > 0

\* C20: for every successful trial ttft is first_token - start when a first
\* token was recorded and the whole duration end - start when none was; a
\* recorded first-token timestamp is never treated as absent. The value
\* recorded is rounded to milliseconds.
C20_TimeToFirstToken ==
    (Returned /\ result.success) =>
        IF first_token_time # None
        THEN result.ttft_seconds = 1000 * (first_token_time[1] - start_time)
        ELSE result.ttft_seconds = 1000 * (result.timestamp - start_time)

\* a trial with a first token recorded before its end
C20_Witness ==
    /\ Returned
    /\ result.success
    /\ first_token_time # None
    /\ first_token_time[1] < result.timestamp
    /\ result.ttft_seconds < result.total_time_seconds

\* the step belongs to a run_inference call: it starts one or happens inside
InTrial == pc' # "idle"

\* the step is the call of display_summary
Summarises == summary' # summary

\* C21: a trial holds no cross-trial mutable state. No step of run_inference
\* changes self.results, self.prompts, self.model or gpu_available; the
\* call of display_summary leaves self.results unchanged; self.results
\* changes only when run_benchmark appends the result just returned; and
\* the summary printed is what display_summary computes from self.results
\* whenever it is computed again.
C21_NoCrossTrialState ==
    /\ [][ /\ InTrial => UNCHANGED objvars
           /\ Summarises => UNCHANGED objvars
           /\ UNCHANGED <<model, gpu_available>>
           /\ results' # results =>
                  /\ pc = "return"
                  /\ bpc = "loop"
                  /\ Len(results') = Len(results) + 1
                  /\ SubSeq(results', 1, Len(results)) = results
                  /\ results'[Len(results')] =
                         result @@ [test_number |-> i,
                                    question    |-> test_prompts[i].question]
         ]_vars
    /\ [](summary # NoSummary => summary = display_summary(results))

\* two trials, one failed and one successful, were run and summarised
C21_Witness ==
    /\ bpc = "done"
    /\ Len(results) = 2
    /\ ~results[1].success
    /\ results[2].success
    /\ summary.kind = "table"
    /\ summary.total = 2

\* C22: whenever run_inference returns after a successful launch, on any
\* path, the child it launched is no longer running: it has exited and been
\* waited for, or has been killed.
C22_NoChildOutlivesItsTrial ==
    (Returned /\ Launched) =>
        /\ child.state \in {"exited", "killed"}
        /\ child.returncode # None

====
